---- MODULE Spec2Model ----
(***************************************************************************)
(* Model of gpr20_vna_acquisition: the VNA instrument driver               *)
(* (vna_driver.py, class VNADriver) on top of the vxi11 transport.         *)
(*                                                                         *)
(* Python values are tagged records.  A text (a Python str exchanged with  *)
(* the instrument) is a sequence of pieces whose concatenation is the      *)
(* string; a piece is the quote character, the comma, or a string holding  *)
(* neither, so that replace('"', '') and split(',') can be computed.       *)
(* Exception classes follow Python 3: socket.error is OSError,             *)
(* socket.timeout is a subclass of it, vxi11's Vxi11Exception derives from *)
(* Exception only.                                                         *)
(***************************************************************************)
EXTENDS Integers, Sequences, FiniteSets, TLC

VARIABLES instrument, vna_connected, vna_ip,
          created, verified, closed,
          op, out, wire, pre, calls,
          pc, local, overlapped, nullUse

vars == <<instrument, vna_connected, vna_ip, created, verified, closed,
          op, out, wire, pre, calls, pc, local, overlapped, nullUse>>

\* The callers' positions and locals, used when calls run concurrently.
threads == <<pc, local, overlapped, nullUse>>

(* ------------------------------ bounds -------------------------------- *)

\* Instrument objects the driver may create in one behaviour.
MaxHandles == 2
\* Comma-separated fields of an identification response.
MaxFields == 3
\* Characters of a calibration-status response.
MaxCalLen == 2

(* --------------------------- Python values ---------------------------- *)

None == [tag |-> "None"]
PyBool(b) == [tag |-> "bool", b |-> b]
PyStr(s) == [tag |-> "str", s |-> s]
PyInt(i) == [tag |-> "int", i |-> i]
PyTuple(b, m) == [tag |-> "tuple", b |-> b, m |-> m]
Instrument(id) == [tag |-> "Instrument", id |-> id]

\* How a call ends: a returned value, or an exception leaving the method.
Return(v) == [exc |-> "none", val |-> v]
Raise(e) == [exc |-> e, val |-> None]

(* --------------------------- module constants ------------------------- *)

VNA_CAL_LOW == 0
VNA_CAL_MID == 1
VNA_CAL_HIGH == 2
VNA_CAL_NO_DATA == 3

(* ------------------------------ exceptions ---------------------------- *)

\* What the transport can raise from Instrument(), ask() and write().
TransportErrors == {"Vxi11Exception", "socket.timeout", "socket.error"}

\* The superclasses of an exception class, itself included.
Bases(e) ==
    CASE e = "socket.timeout" -> {"socket.timeout", "socket.error", "OSError", "Exception"}
      [] e = "socket.error" -> {"socket.error", "OSError", "Exception"}
      [] e = "OSError" -> {"socket.error", "OSError", "Exception"}
      [] OTHER -> {e, "Exception"}

\* An except clause naming `classes` catches exception e.
Catches(classes, e) == (Bases(e) \cap classes) # {}

(* -------------------------------- texts ------------------------------- *)

QUOTE == "\""
COMMA == ","

RECURSIVE Join(_)
\* The string a sequence of pieces stands for.
Join(ps) == IF ps = <<>> THEN "" ELSE Head(ps) \o Join(Tail(ps))

\* response.replace('"', '')
replace_quotes(t) == SelectSeq(t, LAMBDA p : p # QUOTE)

RECURSIVE split(_)
\* response.split(','): the fields between the commas, at least one.
split(t) ==
    IF \A j \in 1..Len(t) : t[j] # COMMA
    THEN <<Join(t)>>
    ELSE LET k == CHOOSE j \in 1..Len(t) :
                      t[j] = COMMA /\ \A i \in 1..(j - 1) : t[i] # COMMA
         IN <<Join(SubSeq(t, 1, k - 1))>> \o split(SubSeq(t, k + 1, Len(t)))

DIGITS == <<"0", "1", "2", "3", "4", "5", "6", "7", "8", "9">>

RECURSIVE digits(_)
\* The decimal digits of a natural number, most significant first.
digits(n) ==
    IF n < 10 THEN <<DIGITS[n + 1]>>
    ELSE digits(n \div 10) \o <<DIGITS[(n % 10) + 1]>>

\* str(n) of a Python int.
str(n) == IF n < 0 THEN <<"-">> \o digits(-n) ELSE digits(n)

IsSpace(p) == p \in {" ", "\n"}
IsDigit(p) == \E d \in 1..10 : DIGITS[d] = p
DigitValue(p) == (CHOOSE d \in 1..10 : DIGITS[d] = p) - 1

RECURSIVE strip(_)
\* s.strip() on a text of one-character pieces.
strip(t) ==
    IF t = <<>> THEN t
    ELSE IF IsSpace(Head(t)) THEN strip(Tail(t))
    ELSE IF IsSpace(t[Len(t)]) THEN strip(SubSeq(t, 1, Len(t) - 1))
    ELSE t

RECURSIVE digits_value(_)
\* The number a non-empty sequence of digits denotes.
digits_value(t) ==
    IF Len(t) = 1 THEN DigitValue(t[1])
    ELSE 10 * digits_value(SubSeq(t, 1, Len(t) - 1)) + DigitValue(t[Len(t)])

\* int(s) on a text of one-character pieces: surrounding whitespace is
\* dropped, one sign is allowed, then only digits; else ValueError.
int(t) ==
    LET s == strip(t)
        signed == s # <<>> /\ Head(s) \in {"+", "-"}
        body == IF signed THEN Tail(s) ELSE s
    IN IF body = <<>> \/ \E j \in 1..Len(body) : ~IsDigit(body[j])
       THEN [exc |-> "ValueError", i |-> 0]
       ELSE [exc |-> "none",
             i |-> IF signed /\ Head(s) = "-" THEN -digits_value(body)
                   ELSE digits_value(body)]

(* ------------------------------ transport ----------------------------- *)

\* One call on the transport, as the instrument side sees it.
Call(fn, h, cmd, exc, resp) ==
    [fn |-> fn, h |-> h, cmd |-> cmd, exc |-> exc, resp |-> resp]

(* ------------------------------- driver ------------------------------- *)

Self == [instrument |-> instrument, vna_connected |-> vna_connected,
         vna_ip |-> vna_ip]

\* The except clauses of connect_to_vna applied to an exception raised in
\* its try block.
connect_except(e) ==
    IF Catches({"AssertionError"}, e)
    THEN Return(PyTuple(FALSE, "Different device manufacturer and/or model!"))
    ELSE IF Catches({"OSError"}, e)
    THEN Return(PyTuple(FALSE, "VNA connection error!"))
    ELSE Raise(e)

\* check_identity without the removal of the quotation marks.
check_identity_quoted(resp) ==
    LET response == split(resp)
    IN IF response[1] # "Anritsu" THEN "AssertionError"
       ELSE IF Len(response) < 2 THEN "IndexError"
       ELSE IF response[2] # "MS2026C/2" THEN "AssertionError"
       ELSE "none"

\* The identity check of connect_to_vna on the text ask("*IDN?") returned:
\* "none" when both assertions pass, else the exception raised.
check_identity(resp) ==
    LET response == split(replace_quotes(resp))
    IN IF response[1] # "Anritsu" THEN "AssertionError"
       ELSE IF Len(response) < 2 THEN "IndexError"
       ELSE IF response[2] # "MS2026C/2" THEN "AssertionError"
       ELSE "none"

\* connect_to_vna(ip_addr).  h is the Instrument object the constructor
\* returns when openExc = "none"; idn is the outcome of ask("*IDN?").
connect_to_vna(self, ip_addr, h, openExc, idn) ==
    IF openExc # "none"
    THEN [self |-> self, out |-> connect_except(openExc), ok |-> FALSE,
          wire |-> <<Call("Instrument", None, <<ip_addr>>, openExc, <<>>)>>]
    ELSE LET s1 == [self EXCEPT !.instrument = h]
             w == <<Call("Instrument", h, <<ip_addr>>, "none", <<>>),
                    Call("ask", h, <<"*IDN?">>, idn.exc, idn.resp)>>
             e == IF idn.exc # "none" THEN idn.exc ELSE check_identity(idn.resp)
         IN IF e # "none"
            THEN [self |-> s1, out |-> connect_except(e), ok |-> FALSE, wire |-> w]
            ELSE [self |-> [instrument |-> h, vna_connected |-> TRUE,
                            vna_ip |-> PyStr(ip_addr)],
                  out |-> Return(PyTuple(TRUE, "Connected to VNA device")),
                  ok |-> TRUE, wire |-> w]

\* disconnect_from_vna without the reset of the address (line 120).
disconnect_keeps_address(self) ==
    IF self.vna_connected /\ self.instrument = None
    THEN [self |-> self, out |-> Raise("AttributeError"), wire |-> <<>>]
    ELSE [self |-> [instrument |-> None, vna_connected |-> FALSE,
                    vna_ip |-> self.vna_ip],
          out |-> Return(PyBool(TRUE)),
          wire |-> IF self.vna_connected
                   THEN <<Call("close", self.instrument, <<>>, "none", <<>>)>>
                   ELSE <<>>]

\* disconnect_from_vna without the reset of the flag (line 117).
disconnect_keeps_flag(self) ==
    IF self.vna_connected /\ self.instrument = None
    THEN [self |-> self, out |-> Raise("AttributeError"), wire |-> <<>>]
    ELSE [self |-> [instrument |-> None, vna_connected |-> self.vna_connected,
                    vna_ip |-> None],
          out |-> Return(PyBool(TRUE)),
          wire |-> IF self.vna_connected
                   THEN <<Call("close", self.instrument, <<>>, "none", <<>>)>>
                   ELSE <<>>]

\* disconnect_from_vna closing the handle whatever the flag says.
disconnect_always_closes(self) ==
    IF self.instrument = None
    THEN [self |-> self, out |-> Raise("AttributeError"), wire |-> <<>>]
    ELSE [self |-> [instrument |-> None, vna_connected |-> FALSE, vna_ip |-> None],
          out |-> Return(PyBool(TRUE)),
          wire |-> <<Call("close", self.instrument, <<>>, "none", <<>>)>>]

\* disconnect_from_vna().  Instrument.close() is taken to return normally;
\* with the flag set and no handle, None.close() raises AttributeError.
disconnect_from_vna(self) ==
    IF self.vna_connected /\ self.instrument = None
    THEN [self |-> self, out |-> Raise("AttributeError"), wire |-> <<>>]
    ELSE [self |-> [instrument |-> None, vna_connected |-> FALSE, vna_ip |-> None],
          out |-> Return(PyBool(TRUE)),
          wire |-> IF self.vna_connected
                   THEN <<Call("close", self.instrument, <<>>, "none", <<>>)>>
                   ELSE <<>>]

\* An except clause for `classes` whose body returns v, applied to e.
except_return(classes, e, v) ==
    IF Catches(classes, e) THEN Return(v) ELSE Raise(e)

\* self.__instrument.ask(cmd): calling a method of None raises
\* AttributeError before anything reaches the transport.
ask(h, cmd, ans) ==
    IF h = None THEN [exc |-> "AttributeError", resp |-> <<>>, wire |-> <<>>]
    ELSE [exc |-> ans.exc, resp |-> ans.resp,
          wire |-> <<Call("ask", h, cmd, ans.exc, ans.resp)>>]

\* self.__instrument.write(cmd), ending as exc says.
write(h, cmd, exc) ==
    IF h = None THEN [exc |-> "AttributeError", wire |-> <<>>]
    ELSE [exc |-> exc, wire |-> <<Call("write", h, cmd, exc, <<>>)>>]

\* test_connection catching the instrument library's exception only.
test_connection_vxi_only(self, ans) ==
    LET a == ask(self.instrument, <<"*IDN?">>, ans)
    IN [out |-> IF a.exc = "none" THEN Return(PyBool(TRUE))
                ELSE except_return({"Vxi11Exception"}, a.exc, PyBool(FALSE)),
        wire |-> a.wire]

\* test_connection().
test_connection(self, ans) ==
    LET a == ask(self.instrument, <<"*IDN?">>, ans)
    IN [out |-> IF a.exc = "none" THEN Return(PyBool(TRUE))
                ELSE except_return({"Vxi11Exception", "socket.error"}, a.exc,
                                   PyBool(FALSE)),
        wire |-> a.wire]

\* The if/elif chain of check_calibration_status on the parsed status.
calibration_of(status) ==
    IF status = 4 THEN VNA_CAL_LOW
    ELSE IF status = 3 \/ status = 2 THEN VNA_CAL_MID
    ELSE IF status = 1 THEN VNA_CAL_HIGH
    ELSE IF status = 0 THEN VNA_CAL_NO_DATA
    ELSE VNA_CAL_NO_DATA

\* check_calibration_status().
check_calibration_status(self, ans) ==
    LET a == ask(self.instrument, <<":SENS:CORR:COLL:STAT:ACC?">>, ans)
        status == int(a.resp)
        e == IF a.exc # "none" THEN a.exc ELSE status.exc
    IN [out |-> IF e = "none" THEN Return(PyInt(calibration_of(status.i)))
                ELSE except_return({"Vxi11Exception"}, e, PyInt(VNA_CAL_NO_DATA)),
        wire |-> a.wire]

\* The outcome of the j-th write of a method when the transport fails the
\* write numbered env.failAt (0: none) with env.exc.
WriteOutcome(env, j) == IF env.failAt = j THEN env.exc ELSE "none"

\* set_frequency_sweep(f_start, f_stop, n_points).
set_frequency_sweep(self, f_start, f_stop, n_points, env) ==
    LET w1 == write(self.instrument, <<":SENS:FREQ:STAR ">> \o str(f_start),
                    WriteOutcome(env, 1))
        w2 == write(self.instrument, <<":SENS:FREQ:STOP ">> \o str(f_stop),
                    WriteOutcome(env, 2))
        w3 == write(self.instrument, <<":SENS:SWE:POIN ">> \o str(n_points),
                    WriteOutcome(env, 3))
        caught(e) == except_return({"Vxi11Exception"}, e, PyBool(FALSE))
    IN IF w1.exc # "none" THEN [out |-> caught(w1.exc), wire |-> w1.wire]
       ELSE IF w2.exc # "none"
       THEN [out |-> caught(w2.exc), wire |-> w1.wire \o w2.wire]
       ELSE IF w3.exc # "none"
       THEN [out |-> caught(w3.exc), wire |-> w1.wire \o w2.wire \o w3.wire]
       ELSE [out |-> Return(PyBool(TRUE)),
             wire |-> w1.wire \o w2.wire \o w3.wire]

\* set_trace(n_trace, s_param, t_format).
set_trace(self, n_trace, s_param, t_format, env) ==
    LET w1 == write(self.instrument,
                    <<":SENS:TRACE">> \o str(n_trace) \o <<":SPAR ", s_param>>,
                    WriteOutcome(env, 1))
        w2 == write(self.instrument,
                    <<":CALC">> \o str(n_trace) \o <<":FORM ", t_format>>,
                    WriteOutcome(env, 2))
        caught(e) == except_return({"Vxi11Exception"}, e, PyBool(FALSE))
    IN IF w1.exc # "none" THEN [out |-> caught(w1.exc), wire |-> w1.wire]
       ELSE IF w2.exc # "none"
       THEN [out |-> caught(w2.exc), wire |-> w1.wire \o w2.wire]
       ELSE [out |-> Return(PyBool(TRUE)), wire |-> w1.wire \o w2.wire]

\* get_trace(n_trace).
get_trace(self, n_trace, ans) ==
    LET a == ask(self.instrument,
                 <<":CALC">> \o str(n_trace) \o <<":DATA? SDAT">>, ans)
    IN [out |-> IF a.exc = "none" THEN Return(PyStr(a.resp))
                ELSE except_return({"Vxi11Exception"}, a.exc, None),
        wire |-> a.wire]

\* get_freq(n_trace).
get_freq(self, n_trace, ans) ==
    LET a == ask(self.instrument,
                 <<":SENSE">> \o str(n_trace) \o <<":FREQ:DATA?">>, ans)
    IN [out |-> IF a.exc = "none" THEN Return(PyStr(a.resp))
                ELSE except_return({"Vxi11Exception"}, a.exc, None),
        wire |-> a.wire]

(* ---------------------------- service adapter ------------------------- *)

\* The response messages of the services.
VNAConnectionResponse(status) ==
    [tag |-> "VNAConnectionResponse", status |-> status]
VNACalibrationStatusResponse(cal_status) ==
    [tag |-> "VNACalibrationStatusResponse", cal_status |-> cal_status]
VNASweepSetupResponse(status) ==
    [tag |-> "VNASweepSetupResponse", status |-> status]
VNAGetDataResponse(status, data) ==
    [tag |-> "VNAGetDataResponse", status |-> status, data |-> data]
VNAGetFreqResponse(status, data) ==
    [tag |-> "VNAGetFreqResponse", status |-> status, data |-> data]

\* A driver call a handler made, and how it ended.
DriverCall(fn, o) == [fn |-> fn, out |-> o]

\* A handler that made one driver call ending as r says: an exception of
\* the driver leaves the handler, a returned value is answered by `response`
\* (built from the value, so read only when there is one).
handler_of_one(fn, r, response) ==
    [out |-> IF r.out.exc # "none" THEN Raise(r.out.exc)
             ELSE Return(response),
     wire |-> r.wire,
     calls |-> <<DriverCall(fn, r.out)>>]

\* __connection_handler(srv) with srv.connection set.
connection_handler_connect(self, srv, h, openExc, idn) ==
    LET r == connect_to_vna(self, srv.ip_addr, h, openExc, idn)
        a == handler_of_one("connect_to_vna", r,
                            VNAConnectionResponse(r.out.val.b))
    IN [self |-> r.self, ok |-> r.ok, out |-> a.out, wire |-> a.wire,
        calls |-> a.calls]

\* __connection_handler(srv) with srv.connection unset.
connection_handler_disconnect(self) ==
    LET r == disconnect_from_vna(self)
        a == handler_of_one("disconnect_from_vna", r,
                            VNAConnectionResponse(r.out.val.b))
    IN [self |-> r.self, out |-> a.out, wire |-> a.wire, calls |-> a.calls]

\* __get_calibration_status_handler(srv).
get_calibration_status_handler(self, ans) ==
    LET r == check_calibration_status(self, ans)
    IN handler_of_one("check_calibration_status", r,
                      VNACalibrationStatusResponse(r.out.val.i))

\* __freq_sweep_setup_handler(srv).  env1 and env2 say how the writes of
\* set_frequency_sweep and of set_trace end.
freq_sweep_setup_handler(self, srv, env1, env2) ==
    IF srv.freq_points < 0 \/ srv.freq_points > 4000
    THEN [out |-> Return(VNASweepSetupResponse(FALSE)), wire |-> <<>>, calls |-> <<>>]
    ELSE IF srv.freq_stop < 0
    THEN [out |-> Return(VNASweepSetupResponse(FALSE)), wire |-> <<>>, calls |-> <<>>]
    ELSE IF srv.freq_start > srv.freq_stop \/ srv.freq_stop < 0
    THEN [out |-> Return(VNASweepSetupResponse(FALSE)), wire |-> <<>>, calls |-> <<>>]
    ELSE LET r1 == set_frequency_sweep(self, srv.freq_start, srv.freq_stop,
                                       srv.freq_points, env1)
             c1 == DriverCall("set_frequency_sweep", r1.out)
             r2 == set_trace(self, 1, "S21", "SMITh", env2)
             c2 == DriverCall("set_trace", r2.out)
         IN IF r1.out.exc # "none"
            THEN [out |-> Raise(r1.out.exc), wire |-> r1.wire, calls |-> <<c1>>]
            ELSE IF r2.out.exc # "none"
            THEN [out |-> Raise(r2.out.exc), wire |-> r1.wire \o r2.wire,
                  calls |-> <<c1, c2>>]
            ELSE [out |-> Return(VNASweepSetupResponse(r1.out.val.b)),
                  wire |-> r1.wire \o r2.wire, calls |-> <<c1, c2>>]

\* __get_vna_data_handler(srv).
get_vna_data_handler(self, ans) ==
    LET r == get_trace(self, 1, ans)
        data == r.out.val
    IN handler_of_one("get_trace", r,
                      IF data # None
                      THEN VNAGetDataResponse(TRUE, data.s)
                      ELSE VNAGetDataResponse(FALSE, <<>>))

\* __get_freq_data_handler(srv).
get_freq_data_handler(self, ans) ==
    LET r == get_freq(self, 1, ans)
        freq_data == r.out.val
        status == IF freq_data # None THEN TRUE ELSE FALSE
    IN handler_of_one("get_freq", r,
                      VNAGetFreqResponse(status,
                          IF ~status THEN <<>> ELSE freq_data.s))

(* --------------------------- environment inputs ----------------------- *)

Addresses == {"10.0.0.1", "10.0.0.2"}

\* Fields a device may put in its identification, unquoted.
IdnWords == {"Anritsu", "MS2026C/2", "Other"}

RECURSIVE FieldSeqs(_)
\* The sequences of at most n fields.
FieldSeqs(n) ==
    IF n = 0 THEN {<<>>}
    ELSE LET shorter == FieldSeqs(n - 1)
         IN shorter \cup {Append(fs, w) : fs \in shorter, w \in IdnWords}

RECURSIVE CommaJoined(_, _)
\* The fields as pieces separated by commas, each field between `q` pieces.
CommaJoined(fs, q) ==
    IF fs = <<>> THEN <<>>
    ELSE q \o <<Head(fs)>> \o q \o
         (IF Len(fs) = 1 THEN <<>> ELSE <<COMMA>> \o CommaJoined(Tail(fs), q))

\* The identification responses: plain, wrapped in one pair of quotes,
\* or with every field quoted.
IdnResponses ==
    UNION {{CommaJoined(fs, <<>>),
            <<QUOTE>> \o CommaJoined(fs, <<>>) \o <<QUOTE>>,
            CommaJoined(fs, <<QUOTE>>)} : fs \in FieldSeqs(MaxFields)}

\* Outcomes of a query: a response text or a transport error.
AskOutcomes(resps) ==
    {[exc |-> "none", resp |-> r] : r \in resps}
        \cup {[exc |-> e, resp |-> <<>>] : e \in TransportErrors}

\* Responses to "*IDN?" seen by test_connection.
TestResponses == {<<>>, <<"Other">>, <<"Anritsu", COMMA, "MS2026C/2">>}

\* Characters of a calibration-status response.
CalChars == {"0", "1", "2", "3", "4", "9", "-", "\n", "x"}

RECURSIVE Texts(_, _)
\* The texts of at most n pieces over an alphabet.
Texts(alphabet, n) ==
    IF n = 0 THEN {<<>>}
    ELSE LET shorter == Texts(alphabet, n - 1)
         IN shorter \cup {Append(t, c) : t \in shorter, c \in alphabet}

CalResponses == Texts(CalChars, MaxCalLen)

\* Trace and frequency payloads, the empty response among them.
DataResponses == {<<>>, <<"1.5E-1", COMMA, "-2.0E-2">>}

TraceNumbers == {1, 4, 12}
FreqValues == {-1, 50, 100}
PointValues == {0, 10}
SParams == {"S11", "S21"}
TraceFormats == {"SMITh", "LMAG"}

\* Which write of a method fails, and how; failAt = 0: none fails.
WriteEnvs(n) ==
    {[failAt |-> 0, exc |-> "none"]}
        \cup {[failAt |-> k, exc |-> e] : k \in 1..n, e \in TransportErrors}

\* Fields of a sweep-setup request.
RequestFreqs == {-1, 50, 100}
RequestPoints == {-1, 10, 4000, 4001}
NoFailure == [failAt |-> 0, exc |-> "none"]

(* ------------------------------- actions ------------------------------ *)

\* No call is in progress and none is being looked at.
Idle == [name |-> "idle"]

\* The callers whose requests the service threads run.
Callers == {"c1", "c2"}

\* The locals of a caller that has not called yet.
NoLocal == [name |-> "idle", ip_addr |-> "", connected |-> FALSE,
            out |-> Return(None)]

Init ==
    /\ instrument = None
    /\ vna_connected = FALSE
    /\ vna_ip = None
    /\ created = 0
    /\ verified = {}
    /\ closed = {}
    /\ op = Idle
    /\ out = Return(None)
    /\ wire = <<>>
    /\ pre = [instrument |-> None, vna_connected |-> FALSE, vna_ip |-> None]
    /\ calls = <<>>
    /\ pc = [t \in Callers |-> "idle"]
    /\ local = [t \in Callers |-> NoLocal]
    /\ overlapped = FALSE
    /\ nullUse = FALSE

Connect ==
    /\ op = Idle
    /\ created < MaxHandles
    /\ \E ip_addr \in Addresses, openExc \in {"none"} \cup TransportErrors,
          idn \in AskOutcomes(IdnResponses) :
        /\ openExc # "none" => idn = [exc |-> "none", resp |-> <<>>]
        /\ LET h == Instrument(created + 1)
               r == connect_to_vna(Self, ip_addr, h, openExc, idn)
           IN /\ instrument' = r.self.instrument
              /\ vna_connected' = r.self.vna_connected
              /\ vna_ip' = r.self.vna_ip
              /\ created' = IF openExc = "none" THEN created + 1 ELSE created
              /\ verified' = IF r.ok THEN verified \cup {h} ELSE verified
              /\ closed' = closed
              /\ op' = [name |-> "connect_to_vna", ip_addr |-> ip_addr]
              /\ out' = r.out
              /\ wire' = r.wire
              /\ pre' = Self
              /\ calls' = <<>>
              /\ UNCHANGED threads

Disconnect ==
    LET r == disconnect_from_vna(Self)
    IN /\ op = Idle
       /\ instrument' = r.self.instrument
       /\ vna_connected' = r.self.vna_connected
       /\ vna_ip' = r.self.vna_ip
       /\ closed' = closed \cup {c.h : c \in {r.wire[j] : j \in 1..Len(r.wire)}}
       /\ op' = [name |-> "disconnect_from_vna"]
       /\ out' = r.out
       /\ wire' = r.wire
       /\ pre' = Self
       /\ calls' = <<>>
       /\ UNCHANGED threads
       /\ UNCHANGED <<created, verified>>

\* Observed clearing the connected flag when the method reports a failure.
Observed_resets_flag(o, r) ==
    /\ op = Idle
    /\ op' = o
    /\ out' = r.out
    /\ wire' = r.wire
    /\ pre' = Self
    /\ calls' = <<>>
    /\ UNCHANGED threads
    /\ vna_connected' = IF r.out = Return(PyBool(FALSE)) THEN FALSE
                        ELSE vna_connected
    /\ UNCHANGED <<instrument, vna_ip, created, verified, closed>>

\* A method that leaves the driver's attributes alone ended as r says.
Observed(o, r) ==
    /\ op = Idle
    /\ op' = o
    /\ out' = r.out
    /\ wire' = r.wire
    /\ pre' = Self
    /\ calls' = <<>>
    /\ UNCHANGED threads
    /\ UNCHANGED <<instrument, vna_connected, vna_ip, created, verified, closed>>

TestConnection ==
    /\ op = Idle
    /\ \E ans \in AskOutcomes(TestResponses) :
           Observed([name |-> "test_connection"], test_connection(Self, ans))

CheckCalibrationStatus ==
    /\ op = Idle
    /\ \E ans \in AskOutcomes(CalResponses) :
           Observed([name |-> "check_calibration_status"],
                    check_calibration_status(Self, ans))

SetFrequencySweep ==
    /\ op = Idle
    /\ \E f_start \in FreqValues, f_stop \in FreqValues, n_points \in PointValues,
          env \in WriteEnvs(3) :
           Observed([name |-> "set_frequency_sweep", f_start |-> f_start,
                     f_stop |-> f_stop, n_points |-> n_points, env |-> env],
                    set_frequency_sweep(Self, f_start, f_stop, n_points, env))

SetTrace ==
    /\ op = Idle
    /\ \E n_trace \in TraceNumbers, s_param \in SParams, t_format \in TraceFormats,
          env \in WriteEnvs(2) :
           Observed([name |-> "set_trace", n_trace |-> n_trace, s_param |-> s_param,
                     t_format |-> t_format, env |-> env],
                    set_trace(Self, n_trace, s_param, t_format, env))

GetTrace ==
    /\ op = Idle
    /\ \E n_trace \in TraceNumbers, ans \in AskOutcomes(DataResponses) :
           Observed([name |-> "get_trace", n_trace |-> n_trace],
                    get_trace(Self, n_trace, ans))

GetFreq ==
    /\ op = Idle
    /\ \E n_trace \in TraceNumbers, ans \in AskOutcomes(DataResponses) :
           Observed([name |-> "get_freq", n_trace |-> n_trace],
                    get_freq(Self, n_trace, ans))

\* A service handler that leaves the driver's attributes alone ended as a
\* says.
Handled(o, a) ==
    /\ op = Idle
    /\ op' = o
    /\ out' = a.out
    /\ wire' = a.wire
    /\ pre' = Self
    /\ calls' = a.calls
    /\ UNCHANGED threads
    /\ UNCHANGED <<instrument, vna_connected, vna_ip, created, verified, closed>>

VnaConnection ==
    \/ /\ op = Idle
       /\ created < MaxHandles
       /\ \E ip_addr \in Addresses, openExc \in {"none"} \cup TransportErrors,
             idn \in AskOutcomes(IdnResponses) :
           /\ openExc # "none" => idn = [exc |-> "none", resp |-> <<>>]
           /\ LET h == Instrument(created + 1)
                  srv == [connection |-> TRUE, ip_addr |-> ip_addr]
                  a == connection_handler_connect(Self, srv, h, openExc, idn)
              IN /\ instrument' = a.self.instrument
                 /\ vna_connected' = a.self.vna_connected
                 /\ vna_ip' = a.self.vna_ip
                 /\ created' = IF openExc = "none" THEN created + 1 ELSE created
                 /\ verified' = IF a.ok THEN verified \cup {h} ELSE verified
                 /\ closed' = closed
                 /\ op' = [name |-> "vna_connection", srv |-> srv]
                 /\ out' = a.out
                 /\ wire' = a.wire
                 /\ pre' = Self
                 /\ calls' = a.calls
                 /\ UNCHANGED threads
    \/ LET a == connection_handler_disconnect(Self)
           srv == [connection |-> FALSE, ip_addr |-> ""]
       IN /\ op = Idle
          /\ instrument' = a.self.instrument
          /\ vna_connected' = a.self.vna_connected
          /\ vna_ip' = a.self.vna_ip
          /\ closed' = closed \cup {c.h : c \in {a.wire[j] : j \in 1..Len(a.wire)}}
          /\ op' = [name |-> "vna_connection", srv |-> srv]
          /\ out' = a.out
          /\ wire' = a.wire
          /\ pre' = Self
          /\ calls' = a.calls
          /\ UNCHANGED threads
          /\ UNCHANGED <<created, verified>>

VnaGetCalibrationStatus ==
    /\ op = Idle
    /\ \E ans \in AskOutcomes(CalResponses) :
           Handled([name |-> "vna_get_calibration_status"],
                   get_calibration_status_handler(Self, ans))

VnaFreqSweepSetup ==
    /\ op = Idle
    /\ \E freq_start \in RequestFreqs, freq_stop \in RequestFreqs,
          freq_points \in RequestPoints, env1 \in WriteEnvs(3), env2 \in WriteEnvs(2) :
           LET srv == [freq_start |-> freq_start, freq_stop |-> freq_stop,
                       freq_points |-> freq_points]
               a == freq_sweep_setup_handler(Self, srv, env1, env2)
           IN /\ Len(a.calls) = 0 => env1 = NoFailure
              /\ Len(a.calls) < 2 => env2 = NoFailure
              /\ Handled([name |-> "vna_freq_sweep_setup", srv |-> srv], a)

VnaGetData ==
    /\ op = Idle
    /\ \E ans \in AskOutcomes(DataResponses) :
           Handled([name |-> "vna_get_data"], get_vna_data_handler(Self, ans))

VnaGetFreq ==
    /\ op = Idle
    /\ \E ans \in AskOutcomes(DataResponses) :
           Handled([name |-> "vna_get_freq"], get_freq_data_handler(Self, ans))

\* The caller has taken the result of the last call: the record of that
\* call is dropped, the driver's attributes stay.
Resume ==
    /\ op # Idle
    /\ op' = Idle
    /\ out' = Return(None)
    /\ wire' = <<>>
    /\ pre' = Self
    /\ calls' = <<>>
    /\ UNCHANGED threads
    /\ UNCHANGED <<instrument, vna_connected, vna_ip, created, verified, closed>>

Next ==
    \/ Resume
    \/ Connect
    \/ Disconnect
    \/ TestConnection
    \/ CheckCalibrationStatus
    \/ SetFrequencySweep
    \/ SetTrace
    \/ GetTrace
    \/ GetFreq
    \/ VnaConnection
    \/ VnaGetCalibrationStatus
    \/ VnaFreqSweepSetup
    \/ VnaGetData
    \/ VnaGetFreq

Spec == Init /\ [][Next]_vars

(* ----------------- the driver's methods, run concurrently ------------- *)
\* Each caller runs one method at a time, one statement per step; pc[t] is
\* the source line caller t executes next.

\* Caller t enters method `name` at line `line`; `connected` keeps whether
\* the session was flagged connected and had a handle at that moment.
Begin(t, name, ip_addr, line) ==
    /\ pc[t] = "idle"
    /\ pc' = [pc EXCEPT ![t] = line]
    /\ local' = [local EXCEPT ![t] = [name |-> name, ip_addr |-> ip_addr,
                                      connected |-> (/\ vna_connected
                                                     /\ instrument # None),
                                      out |-> Return(None)]]
    /\ overlapped' = (overlapped \/ \E u \in Callers \ {t} : pc[u] # "idle")
    /\ UNCHANGED <<instrument, vna_connected, vna_ip, created, verified, closed,
                   op, out, wire, pre, calls, nullUse>>

\* Caller t's method ends with outcome o, which the caller has yet to take.
Leave(t, o) ==
    /\ pc' = [pc EXCEPT ![t] = "return"]
    /\ local' = [local EXCEPT ![t].out = o]

\* Caller t goes on to line `line`.
Goto(t, line) ==
    /\ pc' = [pc EXCEPT ![t] = line]
    /\ local' = local

\* What line 62 and the checks of lines 65-75 can end with: "none" when the
\* identity is accepted, else the exception raised.
IdentityOutcomes ==
    {IF idn.exc # "none" THEN idn.exc ELSE check_identity(idn.resp) :
        idn \in AskOutcomes(IdnResponses)}

\* What get_trace(1) can end with on handle h.
TraceOutcomes(h) ==
    {get_trace([instrument |-> h, vna_connected |-> FALSE, vna_ip |-> None],
               1, ans).out : ans \in AskOutcomes(DataResponses)}

BeginConnect ==
    \E t \in Callers, ip_addr \in Addresses :
        /\ created < MaxHandles
        /\ Begin(t, "connect_to_vna", ip_addr, "L59")

BeginDisconnect ==
    \E t \in Callers : Begin(t, "disconnect_from_vna", "", "L111")

BeginGetTrace ==
    \E t \in Callers : Begin(t, "get_trace", "", "L297")

\* self.__instrument = Instrument(ip_addr)
Connect_L59 ==
    \E t \in Callers :
        /\ pc[t] = "L59"
        /\ \E openExc \in {"none"} \cup TransportErrors :
              IF openExc = "none"
              THEN /\ instrument' = Instrument(created + 1)
                   /\ created' = created + 1
                   /\ Goto(t, "L62")
              ELSE /\ Leave(t, connect_except(openExc))
                   /\ UNCHANGED <<instrument, created>>
        /\ UNCHANGED <<vna_connected, vna_ip, verified, closed,
                       op, out, wire, pre, calls, overlapped, nullUse>>

\* response = self.__instrument.ask("*IDN?"), and the checks on it.
Connect_L62 ==
    \E t \in Callers :
        /\ pc[t] = "L62"
        /\ IF instrument = None
           THEN /\ Leave(t, connect_except("AttributeError"))
                /\ verified' = verified
           ELSE \E e \in IdentityOutcomes :
                   IF e = "none"
                   THEN /\ Goto(t, "L91")
                        /\ verified' = verified \cup {instrument}
                   ELSE /\ Leave(t, connect_except(e))
                        /\ verified' = verified
        /\ UNCHANGED <<instrument, vna_connected, vna_ip, created, closed,
                       op, out, wire, pre, calls, overlapped, nullUse>>

\* self.__vna_connected = True
Connect_L91 ==
    \E t \in Callers :
        /\ pc[t] = "L91"
        /\ vna_connected' = TRUE
        /\ Goto(t, "L94")
        /\ UNCHANGED <<instrument, vna_ip, created, verified, closed,
                       op, out, wire, pre, calls, overlapped, nullUse>>

\* self.__vna_ip = ip_addr, and the return.
Connect_L94 ==
    \E t \in Callers :
        /\ pc[t] = "L94"
        /\ vna_ip' = PyStr(local[t].ip_addr)
        /\ Leave(t, Return(PyTuple(TRUE, "Connected to VNA device")))
        /\ UNCHANGED <<instrument, vna_connected, created, verified, closed,
                       op, out, wire, pre, calls, overlapped, nullUse>>

\* if self.__vna_connected:
Disconnect_L111 ==
    \E t \in Callers :
        /\ pc[t] = "L111"
        /\ Goto(t, IF vna_connected THEN "L114" ELSE "L117")
        /\ UNCHANGED <<instrument, vna_connected, vna_ip, created, verified,
                       closed, op, out, wire, pre, calls, overlapped, nullUse>>

\* self.__instrument.close()
Disconnect_L114 ==
    \E t \in Callers :
        /\ pc[t] = "L114"
        /\ IF instrument = None
           THEN /\ Leave(t, Raise("AttributeError"))
                /\ closed' = closed
           ELSE /\ Goto(t, "L117")
                /\ closed' = closed \cup {instrument}
        /\ UNCHANGED <<instrument, vna_connected, vna_ip, created, verified,
                       op, out, wire, pre, calls, overlapped, nullUse>>

\* Line 117 left out: the flag keeps its value.
Disconnect_L117_skipped ==
    \E t \in Callers :
        /\ pc[t] = "L117"
        /\ Goto(t, "L120")
        /\ UNCHANGED <<instrument, vna_connected, vna_ip, created, verified,
                       closed, op, out, wire, pre, calls, overlapped, nullUse>>

\* self.__vna_connected = False
Disconnect_L117 ==
    \E t \in Callers :
        /\ pc[t] = "L117"
        /\ vna_connected' = FALSE
        /\ Goto(t, "L120")
        /\ UNCHANGED <<instrument, vna_ip, created, verified, closed,
                       op, out, wire, pre, calls, overlapped, nullUse>>

\* self.__vna_ip = None
Disconnect_L120 ==
    \E t \in Callers :
        /\ pc[t] = "L120"
        /\ vna_ip' = None
        /\ Goto(t, "L123")
        /\ UNCHANGED <<instrument, vna_connected, created, verified, closed,
                       op, out, wire, pre, calls, overlapped, nullUse>>

\* self.__instrument = None, and the return.
Disconnect_L123 ==
    \E t \in Callers :
        /\ pc[t] = "L123"
        /\ instrument' = None
        /\ Leave(t, Return(PyBool(TRUE)))
        /\ UNCHANGED <<vna_connected, vna_ip, created, verified, closed,
                       op, out, wire, pre, calls, overlapped, nullUse>>

\* data = self.__instrument.ask(":CALC1:DATA? SDAT"), and the return.
\* nullUse records a call entered on a connected session with a handle
\* that finds the handle None here.
GetTrace_L297 ==
    \E t \in Callers :
        /\ pc[t] = "L297"
        /\ \E o \in TraceOutcomes(instrument) : Leave(t, o)
        /\ nullUse' = (nullUse \/ (instrument = None /\ local[t].connected))
        /\ UNCHANGED <<instrument, vna_connected, vna_ip, created, verified,
                       closed, op, out, wire, pre, calls, overlapped>>

\* The caller takes the outcome of its call.
Returned ==
    \E t \in Callers :
        /\ pc[t] = "return"
        /\ pc' = [pc EXCEPT ![t] = "idle"]
        /\ local' = [local EXCEPT ![t] = NoLocal]
        /\ UNCHANGED <<instrument, vna_connected, vna_ip, created, verified,
                       closed, op, out, wire, pre, calls, overlapped, nullUse>>

NextConcurrent ==
    \/ BeginConnect
    \/ BeginDisconnect
    \/ BeginGetTrace
    \/ Connect_L59
    \/ Connect_L62
    \/ Connect_L91
    \/ Connect_L94
    \/ Disconnect_L111
    \/ Disconnect_L114
    \/ Disconnect_L117
    \/ Disconnect_L120
    \/ Disconnect_L123
    \/ GetTrace_L297
    \/ Returned

SpecConcurrent == Init /\ [][NextConcurrent]_vars

(* ------------------------ vocabulary of the claims -------------------- *)

\* The driver's attributes after the last call.
Cleared == [instrument |-> None, vna_connected |-> FALSE, vna_ip |-> None]

\* The last call of the wire record, when there is one.
LastCall == wire[Len(wire)]
TransportFailed == wire # <<>> /\ LastCall.exc \in TransportErrors

\* An identification response read field by field: the quote pieces are
\* dropped, field n lies between the (n-1)-th and the n-th comma.
Unquoted(t) == SelectSeq(t, LAMBDA p : p # "\"")
CommasOf(t) == {j \in 1..Len(t) : t[j] = ","}
NthComma(t, n) ==
    CHOOSE j \in CommasOf(t) : Cardinality({i \in CommasOf(t) : i < j}) = n - 1
FieldCount(t) == Cardinality(CommasOf(t)) + 1
Field(t, n) ==
    LET first == IF n = 1 THEN 1 ELSE NthComma(t, n - 1) + 1
        last == IF n = FieldCount(t) THEN Len(t) ELSE NthComma(t, n) - 1
    IN Join(SubSeq(t, first, last))
IdentityMatches(resp) ==
    LET t == Unquoted(resp)
    IN /\ FieldCount(t) >= 2
       /\ Field(t, 1) = "Anritsu"
       /\ Field(t, 2) = "MS2026C/2"

\* connect_to_vna opened the session and the device answered "*IDN?".
IdentityAnswered ==
    /\ op.name = "connect_to_vna"
    /\ Len(wire) = 2
    /\ wire[2].fn = "ask"
    /\ wire[2].exc = "none"

(* -------------------------------- claims ------------------------------ *)

\* C1: whenever the device answers the identification query with a response
\* whose first two comma-separated fields, quotes removed, are "Anritsu" and
\* "MS2026C/2", connect returns success = true and leaves the connected flag
\* true and the recorded address equal to the address passed in, whatever
\* the session state was before.
C1_ConnectSucceedsOnMatchingIdentity ==
    (IdentityAnswered /\ IdentityMatches(wire[2].resp)) =>
        /\ out.exc = "none"
        /\ out.val.tag = "tuple"
        /\ out.val.b = TRUE
        /\ vna_connected = TRUE
        /\ vna_ip = PyStr(op.ip_addr)

\* A quoted three-field matching identity answers a connect made on a
\* session already connected to the other address.
C1_Witness ==
    /\ IdentityAnswered
    /\ IdentityMatches(wire[2].resp)
    /\ FieldCount(Unquoted(wire[2].resp)) = 3
    /\ Len(Unquoted(wire[2].resp)) < Len(wire[2].resp)
    /\ pre.vna_connected
    /\ pre.vna_ip # PyStr(op.ip_addr)
    /\ out.val.b = TRUE

\* C2: whenever the device answers with an identity that does not match
\* (responses of fewer than two fields included), connect returns
\* success = false and leaves the connected flag false, whatever the
\* session state was before.
C2_ConnectFailsOnOtherIdentity ==
    (IdentityAnswered /\ ~IdentityMatches(wire[2].resp)) =>
        /\ out.exc = "none"
        /\ out.val.tag = "tuple"
        /\ out.val.b = FALSE
        /\ vna_connected = FALSE

\* C3: the connected flag is true exactly when the driver holds a handle
\* that was opened and passed the identity check.
C3_ConnectedIffVerifiedHandle ==
    vna_connected <=>
        /\ instrument # None
        /\ instrument.id \in 1..created
        /\ instrument \in verified

\* C4: disconnect returns true and ends with the flag false, the address
\* None and the handle None; it closes the handle only when the flag was
\* true; on the session a disconnect leaves behind it changes nothing.
C4_DisconnectClearsAndIsIdempotent ==
    op.name = "disconnect_from_vna" =>
        /\ out = Return(PyBool(TRUE))
        /\ Self = Cleared
        /\ wire # <<>> =>
              /\ pre.vna_connected
              /\ wire = <<Call("close", pre.instrument, <<>>, "none", <<>>)>>
        /\ pre = Cleared => (Self = pre /\ wire = <<>>)

\* A second disconnect, after one that closed a handle.
C4_Witness ==
    /\ op.name = "disconnect_from_vna"
    /\ pre = Cleared
    /\ closed # {}
    /\ out = Return(PyBool(TRUE))

\* The operations that talk to the instrument on the current session.
DataOps == {"test_connection", "check_calibration_status",
            "set_frequency_sweep", "set_trace", "get_trace", "get_freq"}

\* What each of them returns to report a failure.
FailureValue(name) ==
    CASE name = "check_calibration_status" -> PyInt(VNA_CAL_NO_DATA)
      [] name \in {"get_trace", "get_freq"} -> None
      [] OTHER -> PyBool(FALSE)

\* C5: on a connected session a transport failure of any kind during one
\* of the six operations comes back as that operation's failure value, not
\* as an exception.
C5_TransportFailureBecomesFailureValue ==
    (op.name \in DataOps /\ pre.vna_connected /\ TransportFailed) =>
        out = Return(FailureValue(op.name))

\* C6: on a session that holds no handle (never connected, or disconnected)
\* each of the six operations ends with a return value, not an exception.
C6_NoExceptionWhenDisconnected ==
    (op.name \in DataOps /\ pre = Cleared) => out.exc = "none"

\* C7: when the transport fails during connect, in the constructor or in
\* the identification query, connect returns (false, connection error) and
\* the connected flag and the recorded address are as before the call.
C7_ConnectTransportFailure ==
    (op.name = "connect_to_vna" /\ TransportFailed) =>
        /\ out = Return(PyTuple(FALSE, "VNA connection error!"))
        /\ vna_connected = pre.vna_connected
        /\ vna_ip = pre.vna_ip

\* The calibration status the device code stands for.
StatusOfCode(c) ==
    CASE c = 4 -> VNA_CAL_LOW
      [] c \in {2, 3} -> VNA_CAL_MID
      [] c = 1 -> VNA_CAL_HIGH
      [] OTHER -> VNA_CAL_NO_DATA

\* C8: a status query answered with an integer code returns the status of
\* that code (4 LOW, 3 and 2 MID, 1 HIGH, anything else NO_DATA), and a
\* status query the transport fails returns NO_DATA.
C8_CalibrationMapping ==
    (op.name = "check_calibration_status" /\ wire # <<>>) =>
        /\ (LastCall.exc = "none" /\ int(LastCall.resp).exc = "none") =>
              out = Return(PyInt(StatusOfCode(int(LastCall.resp).i)))
        /\ TransportFailed => out = Return(PyInt(VNA_CAL_NO_DATA))

\* A command made of a mnemonic followed by the decimal text of value v.
Carries(cmd, mnemonic, v) ==
    /\ cmd # <<>>
    /\ Head(cmd) = mnemonic
    /\ int(Tail(cmd)) = [exc |-> "none", i |-> v]

\* C9: on a session holding a handle, set_frequency_sweep writes start,
\* stop and point count in that order, each with the caller's value; it
\* returns true when the three writes succeed, and when a write fails it
\* returns false and issues no later write.
C9_SweepWritesInOrder ==
    (op.name = "set_frequency_sweep" /\ pre.instrument # None) =>
        LET n == Len(wire)
            mnemonic == <<":SENS:FREQ:STAR ", ":SENS:FREQ:STOP ", ":SENS:SWE:POIN ">>
            value == <<op.f_start, op.f_stop, op.n_points>>
        IN /\ n \in 1..3
           /\ \A j \in 1..n :
                 /\ wire[j].fn = "write"
                 /\ wire[j].h = pre.instrument
                 /\ Carries(wire[j].cmd, mnemonic[j], value[j])
           /\ \A j \in 1..(n - 1) : wire[j].exc = "none"
           /\ wire[n].exc = "none" => (n = 3 /\ out = Return(PyBool(TRUE)))
           /\ wire[n].exc # "none" => out = Return(PyBool(FALSE))

\* A query made of a prefix, the decimal text of trace number n, a suffix.
Addresses_Trace(cmd, prefix, n, suffix) ==
    /\ Len(cmd) >= 3
    /\ Head(cmd) = prefix
    /\ cmd[Len(cmd)] = suffix
    /\ int(SubSeq(cmd, 2, Len(cmd) - 1)) = [exc |-> "none", i |-> n]

\* C10: on a session holding a handle, get_trace and get_freq issue one
\* query addressed to the trace number; they return the response as
\* received (an empty response as the empty string) and return None when
\* the transport fails.
C10_DataQueryVerbatimOrNone ==
    (op.name \in {"get_trace", "get_freq"} /\ pre.instrument # None) =>
        /\ Len(wire) = 1
        /\ wire[1].fn = "ask"
        /\ wire[1].h = pre.instrument
        /\ IF op.name = "get_trace"
           THEN Addresses_Trace(wire[1].cmd, ":CALC", op.n_trace, ":DATA? SDAT")
           ELSE Addresses_Trace(wire[1].cmd, ":SENSE", op.n_trace, ":FREQ:DATA?")
        /\ wire[1].exc = "none" => out = Return(PyStr(wire[1].resp))
        /\ wire[1].exc # "none" => out = Return(None)

\* A command made of a prefix, the decimal text of trace number n, a
\* keyword and an argument.
Selects(cmd, prefix, n, keyword, arg) ==
    /\ Len(cmd) >= 4
    /\ Head(cmd) = prefix
    /\ cmd[Len(cmd) - 1] = keyword
    /\ cmd[Len(cmd)] = arg
    /\ int(SubSeq(cmd, 2, Len(cmd) - 2)) = [exc |-> "none", i |-> n]

\* C11: on a session holding a handle, set_trace writes the S-parameter
\* selection first and the format selection second, both for the caller's
\* trace number; it returns true only when both writes succeed, and when
\* the first write fails the second is not issued and the result is false.
C11_TraceWritesInOrder ==
    (op.name = "set_trace" /\ pre.instrument # None) =>
        LET n == Len(wire)
        IN /\ n \in 1..2
           /\ \A j \in 1..n : wire[j].fn = "write" /\ wire[j].h = pre.instrument
           /\ Selects(wire[1].cmd, ":SENS:TRACE", op.n_trace, ":SPAR ", op.s_param)
           /\ n = 2 => Selects(wire[2].cmd, ":CALC", op.n_trace, ":FORM ", op.t_format)
           /\ out = Return(PyBool(TRUE)) =>
                 (n = 2 /\ wire[1].exc = "none" /\ wire[2].exc = "none")
           /\ wire[1].exc # "none" => (n = 1 /\ out = Return(PyBool(FALSE)))

Opened == {Instrument(i) : i \in 1..created}
Unclosed == Opened \ closed

\* The last action went through the driver's disconnect, which returned.
Disconnected ==
    \/ op.name = "disconnect_from_vna" /\ out.exc = "none"
    \/ op.name = "vna_connection" /\ ~op.srv.connection /\ out.exc = "none"

\* C13: the driver never has more than one handle that it opened and has
\* not closed, and once disconnect has returned it has none.
C13_HandlesOwnedAndReleased ==
    /\ Cardinality(Unclosed) <= 1
    /\ Disconnected => Unclosed = {}

\* The driver methods the last action invoked.
Invoked ==
    IF calls # <<>> THEN {calls[j].fn : j \in 1..Len(calls)} ELSE {op.name}

\* The last action was a connect_to_vna that returned success.
ConnectSucceeded ==
    LET success == Return(PyTuple(TRUE, "Connected to VNA device"))
    IN \/ op.name = "connect_to_vna" /\ out = success
       \/ /\ op.name = "vna_connection"
          /\ calls # <<>>
          /\ calls[1] = DriverCall("connect_to_vna", success)

ConfigAndDataOps == {"check_calibration_status", "set_frequency_sweep",
                     "set_trace", "get_trace", "get_freq"}

\* C14: the flag goes from false to true only in a connect that succeeds,
\* from true to false only in a disconnect (or a connect), and a step that
\* invokes only check_calibration_status, set_frequency_sweep, set_trace,
\* get_trace or get_freq leaves flag, address and handle as they were.
C14_SessionStateMachine ==
    [][/\ (~vna_connected /\ vna_connected') => ConnectSucceeded'
       /\ (vna_connected /\ ~vna_connected') =>
             (Invoked' \cap {"disconnect_from_vna", "connect_to_vna"}) # {}
       /\ Invoked' \subseteq ConfigAndDataOps =>
             UNCHANGED <<instrument, vna_connected, vna_ip>>]_vars

\* A set_trace that failed on a connected session, which stays connected.
C14_Witness ==
    /\ op.name = "set_trace"
    /\ out = Return(PyBool(FALSE))
    /\ pre.vna_connected
    /\ Self = pre

\* C15: a sweep-setup request reaches set_frequency_sweep only when
\* start >= 0, stop >= 0, start <= stop and 0 <= points <= 4000; any other
\* request is answered with status false, with no driver call and no write.
C15_SweepRequestValidated ==
    op.name = "vna_freq_sweep_setup" =>
        LET valid == /\ op.srv.freq_start >= 0
                     /\ op.srv.freq_stop >= 0
                     /\ op.srv.freq_start <= op.srv.freq_stop
                     /\ op.srv.freq_points >= 0
                     /\ op.srv.freq_points <= 4000
        IN /\ "set_frequency_sweep" \in Invoked => valid
           /\ ~valid => /\ out = Return(VNASweepSetupResponse(FALSE))
                        /\ calls = <<>>
                        /\ wire = <<>>

\* A driver call that returned its failure value.
ReportedFailure(c) ==
    /\ c.out.exc = "none"
    /\ \/ c.out.val = None
       \/ c.out.val.tag \in {"bool", "tuple"} /\ ~c.out.val.b

\* C16: whenever a handler answers with a status flag and one of the driver
\* calls it made returned a failure, the status flag is false.
C16_StatusSurfacesDriverFailure ==
    (/\ op.name \in {"vna_connection", "vna_freq_sweep_setup",
                     "vna_get_data", "vna_get_freq"}
     /\ out.exc = "none"
     /\ \E j \in 1..Len(calls) : ReportedFailure(calls[j]))
        => out.val.status = FALSE

\* The last action was a connect_to_vna that did not return success.
ConnectFailed ==
    /\ \/ op.name = "connect_to_vna"
       \/ op.name = "vna_connection" /\ op.srv.connection
    /\ ~ConnectSucceeded

\* The address the last connect was asked for.
RequestedAddress ==
    IF op.name = "connect_to_vna" THEN op.ip_addr ELSE op.srv.ip_addr

\* C18: the readable address is non-null exactly when the readable flag is
\* true; a successful connect sets both, a disconnect clears both, and a
\* failed connect changes neither.
C18_AddressIffConnected ==
    /\ (vna_ip # None) <=> vna_connected
    /\ ConnectSucceeded => (vna_connected /\ vna_ip = PyStr(RequestedAddress))
    /\ Disconnected => (~vna_connected /\ vna_ip = None)
    /\ ConnectFailed => (vna_connected = pre.vna_connected /\ vna_ip = pre.vna_ip)

\* A connect that failed on a connected session, which keeps its address.
C18_Witness ==
    /\ ConnectFailed
    /\ pre.vna_connected
    /\ vna_connected
    /\ vna_ip = pre.vna_ip
    /\ vna_ip # PyStr(RequestedAddress)

ServiceOps == {"vna_connection", "vna_get_calibration_status",
               "vna_freq_sweep_setup", "vna_get_data", "vna_get_freq"}

\* C19: whenever the flag is true the handle is non-null; so disconnect
\* never calls close() on None, and no operation started on a session
\* flagged connected fails on a None handle.
C19_ConnectedHasHandle ==
    /\ vna_connected => instrument # None
    /\ pre.vna_connected => pre.instrument # None
    /\ (op.name = "disconnect_from_vna" \/ op.name \in ServiceOps) =>
          out # Raise("AttributeError") \/ ~pre.vna_connected
    /\ (op.name \in DataOps /\ pre.vna_connected) =>
          out # Raise("AttributeError")
    /\ \A j \in 1..Len(wire) : wire[j].fn # "Instrument" => wire[j].h # None

\* A disconnect on a session whose handle a failed connect had replaced:
\* the flag was true and the close went to that (non-null) handle.
C19_Witness ==
    /\ op.name = "disconnect_from_vna"
    /\ pre.vna_connected
    /\ pre.instrument \notin verified
    /\ wire = <<Call("close", pre.instrument, <<>>, "none", <<>>)>>
    /\ pre.instrument # None

\* C17: with calls interleaved statement by statement, the flag can be true
\* while the handle is None, and get_trace can find the handle None on a
\* session it entered as connected; neither happens unless two calls have
\* overlapped.
C17_UnsafeOnlyWhenInterleaved ==
    /\ (vna_connected /\ instrument = None) => overlapped
    /\ nullUse => overlapped
    /\ \A t \in Callers :
          (/\ pc[t] = "return"
           /\ local[t].connected
           /\ local[t].out = Raise("AttributeError")) => overlapped

\* Both callers are back, the flag is true, the handle is None, and a
\* get_trace entered on a connected session has found the handle None.
C17_Witness ==
    /\ \A t \in Callers : pc[t] = "idle"
    /\ vna_connected
    /\ instrument = None
    /\ nullUse

====
